---- MODULE Spec2Model ----
(***************************************************************************)
(* Critical Path Analysis component (CriticalPath.tsx): the activity list  *)
(* and the stored result are the state, the handlers addActivity,          *)
(* removeActivity, updateActivity, updatePredecessors, calculate and clear *)
(* are the actions.                                                        *)
(*                                                                         *)
(* Encoding of JavaScript values:                                          *)
(*   - name and duration strings are sequences of one-character strings;   *)
(*   - ids are TLA+ strings (they are only compared, never parsed);        *)
(*   - numbers are whole floating-point values of Precision significand    *)
(*     bits with the values Infinity, -Infinity and NaN, see Numbers;      *)
(*     durations are drawn from strings over the alphabet Chars, on which  *)
(*     parseFloat yields whole numbers, an infinity or NaN; the threshold  *)
(*     1e-9 is Epsilon in the unit of these numbers.                       *)
(***************************************************************************)
EXTENDS Integers, Sequences, FiniteSets, TLC

VARIABLES
  activities,  \* useState<ActivityInput[]>, line 67
  result,      \* useState<CPAResult | null>, line 71
  last,        \* the handler that ran last, "none" before any has run
  run          \* the call of calculate under way, loop by loop: its position
               \* and the locals q, order, inDeg, cur and criticalPath

vars == <<activities, result, last, run>>

(***************************************************************************)
(* Bounds of the model.                                                    *)
(***************************************************************************)
MaxActs == 4

MaxEdges == 4

MaxOddActs == 3

MaxOddEdges == 2

(***************************************************************************)
(* Generic helpers for JavaScript arrays.                                  *)
(***************************************************************************)
Range(s) == {s[i] : i \in 1..Len(s)}

RECURSIVE Reverse(_)
Reverse(s) == IF s = <<>> THEN <<>> ELSE Append(Reverse(Tail(s)), Head(s))

Includes(s, x) == \E i \in 1..Len(s) : s[i] = x

\* Array.prototype.filter(p => p !== x)
RECURSIVE FilterNe(_, _)
FilterNe(s, x) ==
  IF s = <<>> THEN <<>>
  ELSE IF Head(s) # x THEN <<Head(s)>> \o FilterNe(Tail(s), x)
       ELSE FilterNe(Tail(s), x)

\* Array.prototype.filter(p => S.has(p))
RECURSIVE FilterIn(_, _)
FilterIn(s, S) ==
  IF s = <<>> THEN <<>>
  ELSE IF Head(s) \in S THEN <<Head(s)>> \o FilterIn(Tail(s), S)
       ELSE FilterIn(Tail(s), S)

(***************************************************************************)
(* Numbers.  A JavaScript number is an IEEE 754 binary floating-point      *)
(* value: every sum and difference is rounded to the nearest value with    *)
(* Precision significand bits, ties to even, and becomes an infinity when  *)
(* it exceeds MAX_VALUE.  binary64 has 53 significand bits and the largest *)
(* exponent 971; Precision and MaxExponent scale both down.  All numbers   *)
(* of the model are whole (the duration strings have no fraction), so the  *)
(* unit in the last place is never below 1.                                *)
(***************************************************************************)
Precision == 4

MaxExponent == 2

Infinity == 1000000

NaN == 2000000

RECURSIVE pow2(_)
pow2(k) == IF k <= 0 THEN 1 ELSE 2 * pow2(k - 1)

\* Number.MAX_VALUE
MAX_VALUE == (pow2(Precision) - 1) * pow2(MaxExponent)

isFinite(x) == x # NaN /\ x # Infinity /\ x # -Infinity

\* the spacing of the numbers around a >= 0: the least power of two q with
\* a < 2^Precision * q
RECURSIVE ulp(_, _)
ulp(a, q) == IF a < pow2(Precision) * q THEN q ELSE ulp(a, 2 * q)

\* the multiple of q nearest to a >= 0, ties to the even multiple
nearest(a, q) ==
  LET lo == (a \div q) * q
  IN IF 2 * (a - lo) < q THEN lo
     ELSE IF 2 * (a - lo) > q THEN lo + q
     ELSE IF (lo \div q) % 2 = 0 THEN lo ELSE lo + q

\* the magnitude m with the sign of x, an infinity when m exceeds MAX_VALUE
signed(x, m) ==
  IF m > MAX_VALUE THEN (IF x < 0 THEN -Infinity ELSE Infinity)
  ELSE IF x < 0 THEN -m ELSE m

\* the number nearest to the whole x, ties to the even significand
roundNumber(x) ==
  signed(x, nearest(IF x < 0 THEN -x ELSE x, ulp(IF x < 0 THEN -x ELSE x, 1)))

\* a + b
Add(a, b) ==
  IF a = NaN \/ b = NaN THEN NaN
  ELSE IF a = Infinity THEN (IF b = -Infinity THEN NaN ELSE Infinity)
  ELSE IF a = -Infinity THEN (IF b = Infinity THEN NaN ELSE -Infinity)
  ELSE IF b = Infinity \/ b = -Infinity THEN b
  ELSE roundNumber(a + b)

\* a - b
Sub(a, b) == Add(a, IF b = NaN THEN NaN ELSE -b)

\* a < b and a > b: false when either is NaN
Lt(a, b) == a # NaN /\ b # NaN /\ a < b

Gt(a, b) == Lt(b, a)

\* a <= b: false when either is NaN
Le(a, b) == a # NaN /\ b # NaN /\ a <= b

\* Math.abs
abs(x) == IF x = NaN THEN NaN ELSE IF x < 0 THEN -x ELSE x

\* Math.max(0, ...xs): NaN when an argument is NaN
RECURSIVE Max0(_)
Max0(xs) ==
  IF xs = <<>> THEN 0
  ELSE LET m == Max0(Tail(xs))
       IN IF Head(xs) = NaN \/ m = NaN THEN NaN
          ELSE IF Head(xs) > m THEN Head(xs) ELSE m

\* Math.min(...xs): Infinity on the empty array, NaN when an argument is NaN
RECURSIVE MinOf(_)
MinOf(xs) ==
  IF xs = <<>> THEN Infinity
  ELSE LET m == MinOf(Tail(xs))
       IN IF Head(xs) = NaN \/ m = NaN THEN NaN
          ELSE IF Head(xs) < m THEN Head(xs) ELSE m

(***************************************************************************)
(* Strings: String.prototype.trim and parseFloat on the alphabet Chars.    *)
(***************************************************************************)
Digits == {"0", "1", "2", "3", "4", "5", "6", "7", "8", "9"}

Chars == Digits \cup {" ", "-", "n", "x"}

DigitVal(c) ==
  CASE c = "0" -> 0 [] c = "1" -> 1 [] c = "2" -> 2 [] c = "3" -> 3
    [] c = "4" -> 4 [] c = "5" -> 5 [] c = "6" -> 6 [] c = "7" -> 7
    [] c = "8" -> 8 [] c = "9" -> 9

RECURSIVE trimStart(_)
trimStart(s) ==
  IF s # <<>> /\ Head(s) = " " THEN trimStart(Tail(s)) ELSE s

trim(s) == Reverse(trimStart(Reverse(trimStart(s))))

\* the longest prefix of s made of digits
RECURSIVE DigitPrefix(_)
DigitPrefix(s) ==
  IF s # <<>> /\ Head(s) \in Digits THEN <<Head(s)>> \o DigitPrefix(Tail(s))
  ELSE <<>>

RECURSIVE DigitsValue(_, _)
DigitsValue(ds, acc) ==
  IF ds = <<>> THEN acc ELSE DigitsValue(Tail(ds), 10 * acc + DigitVal(Head(ds)))

\* parseFloat: skip leading white space, an optional sign, then the longest
\* run of digits, as the nearest number; NaN when there is no digit (no ".",
\* "e" or "Infinity" in Chars)
parseFloat(s) ==
  LET t == trimStart(s)
  IN IF t # <<>> /\ Head(t) = "-"
     THEN IF DigitPrefix(Tail(t)) = <<>> THEN NaN
          ELSE roundNumber(-DigitsValue(DigitPrefix(Tail(t)), 0))
     ELSE IF DigitPrefix(t) = <<>> THEN NaN
          ELSE roundNumber(DigitsValue(DigitPrefix(t), 0))

(***************************************************************************)
(* Values of the component.                                                *)
(***************************************************************************)
letters == <<"A", "B", "C", "D", "E", "F", "G", "H", "I", "J", "K", "L", "M",
             "N", "O", "P", "Q", "R", "S", "T", "U", "V", "W", "X", "Y", "Z">>

\* useState<CPAResult | null>(null)
Null == [null |-> TRUE]

isResult(r) == "activities" \in DOMAIN r

\* what stands for the critical path of a walk that never ends, and for the
\* result of the call of calculate that does not return
NoReturn == "no return"

Unfinished == [unfinished |-> TRUE]

\* run when no call of calculate is under way
NoCall == [pc |-> "idle"]

InitialActivities ==
  << [id |-> "A", name |-> <<>>, duration |-> <<>>, predecessors |-> <<>>],
     [id |-> "B", name |-> <<>>, duration |-> <<>>, predecessors |-> <<>>] >>

\* the warnings are the sequences of the pieces their text is made of
CycleWarning == <<"The network contains a cycle. Remove circular dependencies and try again.">>

PruneWarning(id) == <<"Activity ", id, ": removed unknown predecessors.">>

CycleResult ==
  [activities |-> <<>>, criticalPath |-> <<>>, projectDuration |-> 0,
   warnings |-> <<CycleWarning>>]

(***************************************************************************)
(* topoSort(nodes, edges): Kahn's algorithm.  edges is a sequence of pairs *)
(* <<u, v>>.  The maps inDeg and adj are functions on the ids seen.        *)
(***************************************************************************)
TopoKeys(nodes, edges) ==
  Range(nodes) \cup {edges[i][1] : i \in 1..Len(edges)}
               \cup {edges[i][2] : i \in 1..Len(edges)}

\* adj.get(u) after the loop over edges: the targets of u's edges, in edge order
RECURSIVE adjOf(_, _)
adjOf(edges, u) ==
  IF edges = <<>> THEN <<>>
  ELSE IF Head(edges)[1] = u THEN <<Head(edges)[2]>> \o adjOf(Tail(edges), u)
       ELSE adjOf(Tail(edges), u)

\* inDeg.get(v) after the loop over edges
inDegOf(edges, v) == Cardinality({i \in 1..Len(edges) : edges[i][2] = v})

\* for (const n of nodes) if (inDeg.get(n) === 0) q.push(n)
RECURSIVE seedQueue(_, _)
seedQueue(nodes, inDeg) ==
  IF nodes = <<>> THEN <<>>
  ELSE IF inDeg[Head(nodes)] = 0 THEN <<Head(nodes)>> \o seedQueue(Tail(nodes), inDeg)
       ELSE seedQueue(Tail(nodes), inDeg)

\* line 59 with q.unshift(v) in place of q.push(v): a stack, not a queue
RECURSIVE relaxFront(_, _, _)
relaxFront(vs, inDeg, q) ==
  IF vs = <<>> THEN [inDeg |-> inDeg, q |-> q]
  ELSE relaxFront(Tail(vs), [inDeg EXCEPT ![Head(vs)] = @ - 1],
                  IF inDeg[Head(vs)] - 1 = 0 THEN <<Head(vs)>> \o q ELSE q)

\* for (const v of adj.get(u)) { inDeg[v]--; if (inDeg[v] === 0) q.push(v) }
RECURSIVE relax(_, _, _)
relax(vs, inDeg, q) ==
  IF vs = <<>> THEN [inDeg |-> inDeg, q |-> q]
  ELSE LET v  == Head(vs)
           d  == inDeg[v] - 1
           q2 == IF d = 0 THEN Append(q, v) ELSE q
       IN relax(Tail(vs), [inDeg EXCEPT ![v] = d], q2)

\* while (q.length) { const u = q.shift(); order.push(u); ... }
RECURSIVE kahnLoop(_, _, _, _)
kahnLoop(q, order, inDeg, adj) ==
  IF q = <<>> THEN order
  ELSE LET u == Head(q)
           r == relax(adj[u], inDeg, Tail(q))
       IN kahnLoop(r.q, Append(order, u), r.inDeg, adj)

topoSort(nodes, edges) ==
  LET keys  == TopoKeys(nodes, edges)
      inDeg == [v \in keys |-> inDegOf(edges, v)]
      adj   == [u \in keys |-> adjOf(edges, u)]
      order == kahnLoop(seedQueue(nodes, inDeg), <<>>, inDeg, adj)
  IN [order |-> order, hasCycle |-> Len(order) # Len(nodes)]

(***************************************************************************)
(* calculate, lines 100-128: validation and pruning.                       *)
(*                                                                         *)
(* Objects live in a heap so that the writes of line 121 have a target:    *)
(* with n = activities.length, references 1..n are the caller's activity   *)
(* objects and n+1..2n are the objects that activities.map creates on      *)
(* lines 104-109 (parsed[i] is reference n+i).                             *)
(***************************************************************************)
\* lines 104-109: the object literal built for each activity
parsedOf(a) ==
  [id           |-> a.id,
   name         |-> trim(a.name),
   duration     |-> parseFloat(a.duration),
   predecessors |-> FilterNe(a.predecessors, a.id)]

\* line 111 without the test duration > 0
isValidAnySign(p) == p.name # <<>> /\ isFinite(p.duration)

\* line 111: the filter predicate
isValid(p) == p.name # <<>> /\ isFinite(p.duration) /\ Gt(p.duration, 0)

heapOfParse(acts) ==
  LET n == Len(acts)
  IN [r \in 1..(2 * n) |-> IF r <= n THEN acts[r] ELSE parsedOf(acts[r - n])]

\* line 111: valid, as the references of the parsed objects that pass
validRefs(heap, n) ==
  SelectSeq([i \in 1..n |-> n + i], LAMBDA r : isValid(heap[r]))

\* line 121: the objects whose predecessors the assignment replaces, with
\* writtenShared the objects written if the copy shared its array with the
\* caller's activity
writtenShared(v, n) == {v, v - n}

written(v, n) == {v}

\* line 121 with the filter left out
keepAll(predecessors, ids) == predecessors

\* line 121: v.predecessors.filter(p => ids.has(p))
keepKnown(predecessors, ids) == FilterIn(predecessors, ids)

\* line 122: the arrays differ in length
prunedSome(before, after) == after # before

\* lines 119-123
RECURSIVE pruneLoop(_, _, _, _, _, _)
pruneLoop(heap, n, valid, ids, k, warnings) ==
  IF k > Len(valid) THEN [heap |-> heap, warnings |-> warnings]
  ELSE LET v      == valid[k]
           before == Len(heap[v].predecessors)
           kept   == keepKnown(heap[v].predecessors, ids)
           heap2  == [r \in DOMAIN heap |->
                        IF r \in written(v, n)
                        THEN [heap[r] EXCEPT !.predecessors = kept]
                        ELSE heap[r]]
           w2     == IF prunedSome(before, Len(kept))
                     THEN Append(warnings, PruneWarning(heap[v].id))
                     ELSE warnings
       IN pruneLoop(heap2, n, valid, ids, k + 1, w2)

\* line 128: for (const v of valid) for (const p of v.predecessors) edges.push([p, v.id])
RECURSIVE edgesOf(_)
edgesOf(vs) ==
  IF vs = <<>> THEN <<>>
  ELSE LET v == Head(vs)
       IN [i \in 1..Len(v.predecessors) |-> <<v.predecessors[i], v.id>>]
          \o edgesOf(Tail(vs))

\* line 118: the ids of the valid objects
idSetOf(heap, valid) == {heap[r].id : r \in Range(valid)}

\* lines 125-128: nodes and edges from the valid objects after pruning
networkOf(pr, valid) ==
  LET objs == [k \in 1..Len(valid) |-> pr.heap[valid[k]]]
  IN [heap     |-> pr.heap,
      valid    |-> objs,
      nodes    |-> [k \in 1..Len(objs) |-> objs[k].id],
      edges    |-> edgesOf(objs),
      warnings |-> pr.warnings]

\* lines 118-128 for the heap of the parsed objects and the valid ones
prunedOf(heap0, n, valid) ==
  networkOf(pruneLoop(heap0, n, valid, idSetOf(heap0, valid), 1, <<>>), valid)

\* lines 101-128 as one value: the heap after pruning, the valid objects,
\* nodes, edges and the warnings so far
graphOf(acts) ==
  prunedOf(heapOfParse(acts), Len(acts), validRefs(heapOfParse(acts), Len(acts)))

(***************************************************************************)
(* calculate, lines 138-206: the schedule.                                 *)
(***************************************************************************)
\* lines 141-154: the ActivityCalc built for v
calcOf(v) ==
  [id |-> v.id, name |-> v.name, duration |-> v.duration,
   preds |-> v.predecessors, succs |-> <<>>,
   es |-> 0, ef |-> 0, lf |-> Infinity, ls |-> Infinity,
   totalFloat |-> 0, freeFloat |-> 0, isCritical |-> FALSE]

\* lines 139-155: byId.set(v.id, ...) for each v of valid, a later v replacing
\* an earlier one with the same id
RECURSIVE indexById(_, _)
indexById(vs, byId) ==
  IF vs = <<>> THEN byId
  ELSE LET v == Head(vs)
       IN indexById(Tail(vs),
            [i \in DOMAIN byId \cup {v.id} |-> IF i = v.id THEN calcOf(v) ELSE byId[i]])

\* line 156: for (const [u, w] of edges) byId.get(u).succs.push(w)
RECURSIVE linkSuccs(_, _)
linkSuccs(edges, byId) ==
  IF edges = <<>> THEN byId
  ELSE LET u == Head(edges)[1]
           w == Head(edges)[2]
       IN linkSuccs(Tail(edges), [byId EXCEPT ![u].succs = Append(@, w)])

\* lines 159-163
RECURSIVE forwardPass(_, _, _)
forwardPass(byId, order, i) ==
  IF i > Len(order) THEN byId
  ELSE LET id   == order[i]
           node == byId[id]
           es   == Max0([k \in 1..Len(node.preds) |-> byId[node.preds[k]].ef])
       IN forwardPass([byId EXCEPT ![id].es = es, ![id].ef = Add(es, node.duration)],
                      order, i + 1)

\* line 165
projectDurationOf(byId, order) ==
  Max0([k \in 1..Len(order) |-> byId[order[k]].ef])

\* line 174: the latest finish of a node with successors
lfOfSuccs(byId, succs) ==
  MinOf([k \in 1..Len(succs) |-> byId[succs[k]].ls])

\* lines 168-177: i runs from order.length - 1 down to 0 (here Len(order)..1)
RECURSIVE backwardPass(_, _, _, _)
backwardPass(byId, order, projectDuration, i) ==
  IF i < 1 THEN byId
  ELSE LET id   == order[i]
           node == byId[id]
           lf   == IF Len(node.succs) = 0 THEN projectDuration
                   ELSE lfOfSuccs(byId, node.succs)
       IN backwardPass([byId EXCEPT ![id].lf = lf, ![id].ls = Sub(lf, node.duration)],
                       order, projectDuration, i - 1)

\* 1e-9 of lines 189 and 202 in the unit of the model's numbers: like 1e-9 it
\* lies above the least positive duration and above the rounding error of the
\* small sums, and below the rounding error of the large ones
Epsilon == 2

\* line 189 with n.totalFloat === 0 in place of the comparison with 1e-9
exactZero(x) == x = 0

\* lines 189 and 202: Math.abs(x) < 1e-9
nearZero(x) == Lt(abs(x), Epsilon)

\* lines 180-190 with the branch of line 186 taken for every node
RECURSIVE floatPassAsSink(_, _, _, _)
floatPassAsSink(byId, order, projectDuration, i) ==
  IF i > Len(order) THEN byId
  ELSE LET id == order[i]
           n  == byId[id]
           tf == Sub(n.lf, n.ef)
           ff == Max0(<<Sub(projectDuration, n.ef)>>)
       IN floatPassAsSink([byId EXCEPT ![id].totalFloat = tf, ![id].freeFloat = ff,
                                       ![id].isCritical = nearZero(tf)],
                          order, projectDuration, i + 1)

\* lines 180-190
RECURSIVE floatPass(_, _, _, _)
floatPass(byId, order, projectDuration, i) ==
  IF i > Len(order) THEN byId
  ELSE LET id == order[i]
           n  == byId[id]
           tf == Sub(n.lf, n.ef)
           ff == IF Len(n.succs) # 0
                 THEN Max0(<<Sub(MinOf([k \in 1..Len(n.succs) |-> byId[n.succs[k]].es]), n.ef)>>)
                 ELSE Max0(<<Sub(projectDuration, n.ef)>>)
       IN floatPass([byId EXCEPT ![id].totalFloat = tf, ![id].freeFloat = ff,
                                 ![id].isCritical = nearZero(tf)],
                    order, projectDuration, i + 1)

\* the comparator (a, b) => ef(a) - ef(b) as sort reads it: NaN counts as 0
compareEf(byId, a, b) ==
  LET d == Sub(byId[a].ef, byId[b].ef) IN IF d = NaN THEN 0 ELSE d

\* the insertion of an unstable sort: x goes before the elements it ties with
RECURSIVE insertBeforeTies(_, _, _)
insertBeforeTies(byId, sorted, x) ==
  IF sorted = <<>> THEN <<x>>
  ELSE IF compareEf(byId, Head(sorted), x) < 0
       THEN <<Head(sorted)>> \o insertBeforeTies(byId, Tail(sorted), x)
       ELSE <<x>> \o sorted

\* Array.prototype.sort((a, b) => ef(a) - ef(b)): stable, so an insertion sort
\* that puts x after the elements the comparator does not put after it
RECURSIVE insertByEf(_, _, _)
insertByEf(byId, sorted, x) ==
  IF sorted = <<>> THEN <<x>>
  ELSE IF compareEf(byId, Head(sorted), x) <= 0
       THEN <<Head(sorted)>> \o insertByEf(byId, Tail(sorted), x)
       ELSE <<x>> \o sorted

RECURSIVE sortByEf(_, _, _)
sortByEf(byId, xs, sorted) ==
  IF xs = <<>> THEN sorted
  ELSE sortByEf(byId, Tail(xs), insertByEf(byId, sorted, Head(xs)))

\* lines 193-194 without the sort of line 194: the first candidate of order
startUnsorted(byId, order) ==
  SelectSeq(order, LAMBDA id : byId[id].isCritical /\ byId[id].es = 0)

\* lines 193-194: undefined is the empty sequence's missing [0], here <<>>
startCritOf(byId, order) ==
  sortByEf(byId,
           SelectSeq(order, LAMBDA id : byId[id].isCritical /\ byId[id].es = 0),
           <<>>)

\* line 201 without its filter: every successor, in the order of ef
anySuccessor(byId, node) == sortByEf(byId, node.succs, <<>>)

\* lines 201-203
nextOf(byId, node) ==
  sortByEf(byId,
           SelectSeq(node.succs,
                     LAMBDA s : byId[s].isCritical /\ nearZero(Sub(byId[s].es, node.ef))),
           <<>>)

\* lines 198-205: while (cur) { criticalPath.push(cur); ...; cur = next }.
\* next depends on cur alone, so the loop that comes back to a node it has
\* pushed never ends: <<NoReturn>>
RECURSIVE walk(_, _, _)
walk(byId, cur, criticalPath) ==
  LET path == Append(criticalPath, cur)
      next == nextOf(byId, byId[cur])
  IN IF next = <<>> THEN path
     ELSE IF Includes(path, next[1]) THEN <<NoReturn>>
     ELSE walk(byId, next[1], path)

\* lines 195-206
criticalPathOf(byId, order) ==
  LET startCrit == startCritOf(byId, order)
  IN IF startCrit = <<>> THEN <<>> ELSE walk(byId, startCrit[1], <<>>)

\* lines 208-220
activitiesOut(byId, order) ==
  [k \in 1..Len(order) |->
     LET n == byId[order[k]]
     IN [id |-> n.id, name |-> n.name, duration |-> n.duration,
         est |-> n.es, lft |-> n.lf, totalFloat |-> n.totalFloat,
         freeFloat |-> n.freeFloat, isCritical |-> n.isCritical]]

\* lines 168-190: the backward pass and the floats for the project duration
latePasses(b1, order, pd) ==
  floatPass(backwardPass(b1, order, pd, Len(order)), order, pd, 1)

\* lines 165-190 for byId after the forward pass
passesOf(b1, order) == latePasses(b1, order, projectDurationOf(b1, order))

\* lines 139-190: byId after the three passes
scheduleOf(g, order) ==
  passesOf(forwardPass(linkSuccs(g.edges, indexById(g.valid, <<>>)), order, 1), order)

\* lines 208-222: the value handed to setResult for the critical path found
returned(g, order, byId, criticalPath) ==
  [activities      |-> activitiesOut(byId, order),
   criticalPath    |-> criticalPath,
   projectDuration |-> projectDurationOf(byId, order),
   warnings        |-> g.warnings]

\* the result of lines 208-222 for the critical path found
resultOf(g, order, criticalPath) ==
  returned(g, order, scheduleOf(g, order), criticalPath)

\* lines 193-222: the walk and the result, Unfinished when the walk never ends
walked(g, order, byId, criticalPath) ==
  [result |-> IF criticalPath = <<NoReturn>> THEN Unfinished
              ELSE returned(g, order, byId, criticalPath),
   heap   |-> g.heap]

\* lines 193-222 for byId after the three passes
scheduled(g, order, byId) == walked(g, order, byId, criticalPathOf(byId, order))

\* lines 130-222 for what topoSort returned
afterSort(g, ts) ==
  IF ts.hasCycle THEN [result |-> CycleResult, heap |-> g.heap]
  ELSE scheduled(g, ts.order, scheduleOf(g, ts.order))

\* lines 130-222 for the graph of the valid activities
analysed(g) == afterSort(g, topoSort(g.nodes, g.edges))

(***************************************************************************)
(* calculate as a whole: the value handed to setResult and the heap when   *)
(* it returns.                                                             *)
(***************************************************************************)
calculate(acts) ==
  IF Len(validRefs(heapOfParse(acts), Len(acts))) < 2
  THEN [result |-> Null, heap |-> heapOfParse(acts)]
  ELSE analysed(graphOf(acts))

\* line 112 left out: the early return keeps what is on display
keepResult(prev, value) == IF value = Null THEN prev ELSE value

\* lines 112, 131 and 222: setResult(value) replaces the state prev
setResult(prev, value) == value

\* the caller's activity objects, read back from the heap
callerView(heap, n) == [i \in 1..n |-> heap[i]]

(***************************************************************************)
(* The handlers that edit the activity list, lines 73-98 and 225-231, as   *)
(* functions from the list the handler sees to the list it sets.           *)
(***************************************************************************)
freshActivity(id) == [id |-> id, name |-> <<>>, duration |-> <<>>, predecessors |-> <<>>]

\* line 75: letters[nextIndex] ?? `N${nextIndex+1}`
nextLetterOf(nextIndex) ==
  IF nextIndex < Len(letters) THEN letters[nextIndex + 1]
  ELSE "N" \o ToString(nextIndex + 1)

\* lines 73-77
addActivity(acts) == Append(acts, freshActivity(nextLetterOf(Len(acts))))

\* lines 79-85 without the map of line 83: the references to id stay
removeEntryOnly(acts, id) ==
  IF Len(acts) <= 2 THEN acts ELSE SelectSeq(acts, LAMBDA a : a.id # id)

\* lines 79-85
removeActivity(acts, id) ==
  IF Len(acts) <= 2 THEN acts
  ELSE LET filtered == SelectSeq(acts, LAMBDA a : a.id # id)
       IN [k \in 1..Len(filtered) |->
             [filtered[k] EXCEPT !.predecessors = FilterNe(@, id)]]

\* lines 87-89, for the fields the inputs of lines 268 and 280 edit
updateActivity(acts, id, field, value) ==
  [k \in 1..Len(acts) |->
     IF acts[k].id = id THEN [acts[k] EXCEPT ![field] = value] ELSE acts[k]]

\* new Set(xs), as the array of its elements in insertion order
RECURSIVE setOf(_, _)
setOf(xs, acc) ==
  IF xs = <<>> THEN acc
  ELSE setOf(Tail(xs), IF Includes(acc, Head(xs)) THEN acc ELSE Append(acc, Head(xs)))

\* lines 91-98
updatePredecessors(acts, id, predecessorId, checked) ==
  [k \in 1..Len(acts) |->
     IF acts[k].id # id THEN acts[k]
     ELSE LET set  == setOf(acts[k].predecessors, <<>>)
              set2 == IF checked
                      THEN (IF Includes(set, predecessorId) THEN set
                            ELSE Append(set, predecessorId))
                      ELSE FilterNe(set, predecessorId)
          IN [acts[k] EXCEPT !.predecessors = set2]]

idsOf(acts) == [k \in 1..Len(acts) |-> acts[k].id]

(***************************************************************************)
(* The activity lists the specifications start from.                       *)
(***************************************************************************)
\* the lists of at most n activities reached from S by addActivity and
\* removeActivity
RECURSIVE idClosure(_, _)
idClosure(S, n) ==
  LET added   == {addActivity(L) : L \in {M \in S : Len(M) < n}}
      removed == UNION {{removeActivity(L, L[k].id) : k \in 1..Len(L)} : L \in S}
      T       == S \cup added \cup removed
  IN IF T = S THEN S ELSE idClosure(T, n)

IdLists(n) == {idsOf(L) : L \in idClosure({InitialActivities}, n)}

\* the arrays without repetition of at most n elements of S
RECURSIVE ArraysOf(_, _)
ArraysOf(S, n) ==
  IF n <= 0 THEN {<<>>}
  ELSE LET shorter == ArraysOf(S, n - 1)
       IN shorter \cup
          UNION {{Append(p, x) : x \in S \ Range(p)} : p \in shorter}

\* what the name and duration inputs of a valid activity hold
Rows == {[name |-> <<"n">>, duration |-> <<"1">>],
         [name |-> <<"n">>, duration |-> <<"2">>]}

\* inputs that exercise trim, parseFloat, rounding and each way of being
\* invalid (the duration input is of type number: its value is a numeral or
\* empty); the first is the untouched activity of lines 68, 69 and 76, the
\* last two durations are one that absorbs a sum with 1 and one beyond MAX_VALUE
OddRows == {[name |-> <<>>, duration |-> <<>>],
            [name |-> <<" ">>, duration |-> <<"1">>],
            [name |-> <<" ", "n", " ">>, duration |-> <<"3">>],
            [name |-> <<"n">>, duration |-> <<"0">>],
            [name |-> <<"n">>, duration |-> <<"-", "1">>],
            [name |-> <<"n">>, duration |-> <<"3", "2">>],
            [name |-> <<"n">>, duration |-> <<"9", "9">>]}

\* one predecessor array per id of ds[k..], the array of ds[k] drawn from
\* pool(ds, k, api), with at most budget references in all. The check boxes of
\* lines 290-299 offer the ids of the other listed activities; the handler
\* itself (api) takes any id, among them the activity's own and Ghost
Ghost == "Z"

pool(ds, k, api) ==
  IF api THEN Range(ds) \cup {Ghost} ELSE Range(ds) \ {ds[k]}

RECURSIVE predChoices(_, _, _, _)
predChoices(ds, k, budget, api) ==
  IF k > Len(ds) THEN {<<>>}
  ELSE UNION {{<<p>> \o rest : rest \in predChoices(ds, k + 1, budget - Len(p), api)} :
              p \in ArraysOf(pool(ds, k, api), budget)}

\* the distinct ids of an id list, in order of first occurrence
distinctIds(ids) == setOf(ids, <<>>)

indexIn(ds, x) == CHOOSE k \in 1..Len(ds) : ds[k] = x

\* the list with ids ids in which the activities of id ds[k] have row rows[k]
\* and predecessors preds[k]
dress(ids, ds, rows, preds) ==
  [j \in 1..Len(ids) |->
     LET k == indexIn(ds, ids[j])
     IN [id |-> ids[j], name |-> rows[k].name, duration |-> rows[k].duration,
         predecessors |-> preds[k]]]

\* Lists the component can hold. Every id list reachable by adding and
\* removing; the predecessors of an activity are ids of other listed
\* activities; the activities of one id are
\* edited alike (updateActivity and updatePredecessors edit every activity of
\* the id they are given).
Held(acts) ==
  \E ids \in IdLists(MaxActs) :
    LET ds == distinctIds(ids)
    IN \E preds \in predChoices(ds, 1, MaxEdges, FALSE) :
         \E rows \in [1..Len(ds) -> Rows] :
           acts = dress(ids, ds, rows, preds)

\* Lists the component can hold with odd rows
HeldOdd(acts) ==
  \E ids \in IdLists(MaxOddActs) :
    LET ds == distinctIds(ids)
    IN \E preds \in predChoices(ds, 1, MaxOddEdges, FALSE) :
         \E rows \in [1..Len(ds) -> Rows \cup OddRows] :
           acts = dress(ids, ds, rows, preds)

\* the list [A, B, D, D, E] the component holds after add, add, remove C, add, add
LongActivities ==
  addActivity(addActivity(
    removeActivity(addActivity(addActivity(InitialActivities)), "C")))

\* the subsequences of xs
RECURSIVE SubSeqs(_)
SubSeqs(xs) ==
  IF xs = <<>> THEN {<<>>}
  ELSE LET rest == SubSeqs(Tail(xs))
       IN rest \cup {<<Head(xs)>> \o r : r \in rest}

\* check boxes ticked in lists on LongActivities in which A waits for the
\* repeated D and for B, and B for E: any of D and B for A, of E for B
LateBoxes(id) ==
  CASE id = "A" -> <<"D", "B">>
    [] id = "B" -> <<"E">>
    [] OTHER    -> <<>>

\* Lists the component can hold on the ids of LongActivities
HeldLong(acts) ==
  LET ids == idsOf(LongActivities)
      ds  == distinctIds(ids)
  IN \E rows \in [1..Len(ds) -> Rows] :
       \E preds \in [1..Len(ds) -> UNION {SubSeqs(LateBoxes(id)) : id \in Range(ds)}] :
         /\ \A k \in 1..Len(ds) : preds[k] \in SubSeqs(LateBoxes(ds[k]))
         /\ acts = dress(ids, ds, rows, preds)

\* the number of activities that pass validation
validCount(acts) == Len(validRefs(heapOfParse(acts), Len(acts)))

(***************************************************************************)
(* SpecCalc: calculate applied to each list the component can hold, the    *)
(* lists of HeldOdd with or without an earlier result on display, the      *)
(* diamond and the lists of HeldLong.                                      *)
(***************************************************************************)
\* lines 100-223: setResult(...) with the value calculate computes, or no
\* setResult at all when it does not return; the activity objects are what
\* the heap holds then
Calculate ==
  \E c \in {calculate(activities)} :
    /\ activities' = callerView(c.heap, Len(activities))
    /\ IF c.result = Unfinished
       THEN result' = result /\ last' = "calculating"
       ELSE result' = setResult(result, c.result) /\ last' = "calculate"
    /\ UNCHANGED run

\* results an earlier call of calculate has left on display
PriorResults ==
  {Null, CycleResult,
   calculate(<< [id |-> "A", name |-> <<"n">>, duration |-> <<"1">>, predecessors |-> <<>>],
                [id |-> "B", name |-> <<"n">>, duration |-> <<"2">>,
                 predecessors |-> <<"A">>] >>).result}

\* the list of four activities in which B and C follow A and D follows both
Diamond ==
  << [id |-> "A", name |-> <<"n">>, duration |-> <<"4">>, predecessors |-> <<>>],
     [id |-> "B", name |-> <<"n">>, duration |-> <<"2">>, predecessors |-> <<"A">>],
     [id |-> "C", name |-> <<"n">>, duration |-> <<"6">>, predecessors |-> <<"A">>],
     [id |-> "D", name |-> <<"n">>, duration |-> <<"1">>, predecessors |-> <<"B", "C">>] >>

InitCalc ==
  /\ \/ activities = Diamond /\ result = Null
     \/ HeldLong(activities) /\ result = Null
     \/ Held(activities) /\ result = Null
     \/ HeldOdd(activities) /\ result \in PriorResults
  /\ last = "none"
  /\ run = NoCall

NextCalc == Calculate

SpecCalc == InitCalc /\ [][NextCalc]_vars

(***************************************************************************)
(* What the claims speak of, for the list in activities.                   *)
(***************************************************************************)
\* the ids reached from the ids of S along one or more edges
RECURSIVE reached(_, _)
reached(edges, S) ==
  LET T == S \cup {edges[i][2] : i \in {j \in 1..Len(edges) : edges[j][1] \in S}}
  IN IF T = S THEN S ELSE reached(edges, T)

\* some edge closes a directed cycle
hasDirectedCycle(edges) ==
  \E i \in 1..Len(edges) : edges[i][1] \in reached(edges, {edges[i][2]})

\* the pruned predecessor graph of the valid activities has a directed cycle
Cyclic(acts) == validCount(acts) >= 2 /\ hasDirectedCycle(graphOf(acts).edges)

\* at least two valid activities and no directed cycle
Acyclic(acts) == validCount(acts) >= 2 /\ ~hasDirectedCycle(graphOf(acts).edges)

\* calculate has just run on the list in activities
Calculated == last = "calculate"

(***************************************************************************)
(* C1.  Whenever the validated, pruned predecessor graph has a directed    *)
(* cycle, calculate sets result to the cycle result: no activities, no     *)
(* critical path, project duration 0 and the cycle notice as the only      *)
(* warning.                                                                *)
(***************************************************************************)
C1_CycleReported ==
  (Calculated /\ Cyclic(activities)) => result = CycleResult

\* calculate reaches the passes on acts: two valid activities, no cycle found
Scheduled(acts) ==
  /\ validCount(acts) >= 2
  /\ ~topoSort(graphOf(acts).nodes, graphOf(acts).edges).hasCycle

\* byId when calculate has run the passes on acts
nodesOf(acts) ==
  LET g == graphOf(acts)
  IN scheduleOf(g, topoSort(g.nodes, g.edges).order)

(***************************************************************************)
(* C2.  On an acyclic input with at least two valid activities, every node *)
(* calculate computes has es <= ef <= lf and totalFloat = lf - ef >= 0,    *)
(* and so has every activity of the result (ef = est + duration).          *)
(***************************************************************************)
C2_FloatNonNegative ==
  (Calculated /\ Acyclic(activities) /\ Scheduled(activities)) =>
    /\ \A byId \in {nodesOf(activities)} :
         \A id \in DOMAIN byId :
           /\ Le(byId[id].es, byId[id].ef)
           /\ Le(byId[id].ef, byId[id].lf)
           /\ byId[id].totalFloat = Sub(byId[id].lf, byId[id].ef)
           /\ Le(0, byId[id].totalFloat)
    /\ isResult(result) =>
         \A k \in 1..Len(result.activities) :
           LET e == result.activities[k]
           IN /\ Le(e.est, Add(e.est, e.duration))
              /\ Le(Add(e.est, e.duration), e.lft)
              /\ e.totalFloat = Sub(e.lft, Add(e.est, e.duration))
              /\ Le(0, e.totalFloat)

\* the earliest finish of id by the recurrence of the forward pass, on an
\* acyclic graph: duration plus the largest earliest finish of a predecessor
RECURSIVE earliestFinishOf(_, _)
earliestFinishOf(byId, id) ==
  Add(Max0([k \in 1..Len(byId[id].preds) |-> earliestFinishOf(byId, byId[id].preds[k])]),
      byId[id].duration)

\* the largest element of a non-empty set of numbers
MaxOfSet(S) == CHOOSE x \in S : \A y \in S : y <= x

\* the valid activities by id, before the passes
indexOf(acts) == indexById(graphOf(acts).valid, <<>>)

\* ids with no successor in the pruned graph
sinksOf(acts) ==
  LET g == graphOf(acts)
  IN Range(g.nodes) \ {g.edges[i][1] : i \in 1..Len(g.edges)}

(***************************************************************************)
(* C3.  On an acyclic input with at least two valid activities,            *)
(* result.projectDuration is the largest earliest finish of a validated    *)
(* node, and every node without successors is in the result with lft equal *)
(* to projectDuration.                                                     *)
(***************************************************************************)
C3_ProjectDuration ==
  (Calculated /\ Acyclic(activities)) =>
    LET byId == indexOf(activities)
    IN /\ isResult(result)
       /\ result.projectDuration =
            MaxOfSet({earliestFinishOf(byId, id) : id \in DOMAIN byId})
       /\ \A id \in sinksOf(activities) :
            \E k \in 1..Len(result.activities) :
               /\ result.activities[k].id = id
               /\ result.activities[k].lft = result.projectDuration

\* the ids of the valid activities of acts
validIds(acts) ==
  LET heap == heapOfParse(acts)
  IN {heap[r].id : r \in Range(validRefs(heap, Len(acts)))}

\* acts with the reference p deleted from the predecessors of activity k
withoutRef(acts, k, p) ==
  [acts EXCEPT ![k].predecessors = FilterNe(@, p)]

\* ws with its first w removed
RECURSIVE removeFirst(_, _)
removeFirst(ws, w) ==
  IF ws = <<>> THEN <<>>
  ELSE IF Head(ws) = w THEN Tail(ws) ELSE <<Head(ws)>> \o removeFirst(Tail(ws), w)

\* the results r (with the reference) and r2 (without it) differ at most by
\* the pruning notice of id
samePrunedResult(r, r2, id) ==
  IF isResult(r)
  THEN /\ isResult(r2)
       /\ r2.activities = r.activities
       /\ r2.criticalPath = r.criticalPath
       /\ r2.projectDuration = r.projectDuration
       /\ r2.warnings \in {r.warnings, removeFirst(r.warnings, PruneWarning(id))}
  ELSE r2 = r

(***************************************************************************)
(* C5.  Pruning equivalence: for every reference of an activity to an id   *)
(* that no valid activity has, calculate gives the same activities,        *)
(* criticalPath and projectDuration as on the list without that reference; *)
(* the warnings differ at most by that activity's pruning notice.          *)
(***************************************************************************)
C5_PruningEquivalence ==
  Calculated =>
    \A k \in 1..Len(activities) :
      \A p \in Range(activities[k].predecessors) \ validIds(activities) :
        samePrunedResult(result,
                         calculate(withoutRef(activities, k, p)).result,
                         activities[k].id)

\* a schedule computed for a list in which a valid activity refers to an id no
\* valid activity has, with its pruning notice
C5_Witness ==
  /\ Calculated /\ isResult(result) /\ result.activities # <<>>
  /\ \E k \in 1..Len(activities) :
       /\ isValid(parsedOf(activities[k]))
       /\ Range(activities[k].predecessors) \ validIds(activities) # {}
       /\ result.warnings = <<PruneWarning(activities[k].id)>>


(***************************************************************************)
(* Spec: the component.  One action per handler; what the user types and   *)
(* ticks is drawn from UiNames, UiDurations and the check boxes on         *)
(* display.  No handler runs while a call of calculate has not returned.   *)
(***************************************************************************)
MaxUiActs == 3

\* the check boxes ticked at a time, over all rows
MaxUiEdges == 2

\* values typed into the name input of line 268
UiNames == {<<"n">>}

\* values typed into the duration input of line 280
UiDurations == {<<"1">>}

Idle == last # "calculating"

\* the number of predecessor references the list holds
RECURSIVE refCount(_)
refCount(acts) ==
  IF acts = <<>> THEN 0 ELSE Len(Head(acts).predecessors) + refCount(Tail(acts))

Init ==
  /\ activities = InitialActivities
  /\ result = Null
  /\ last = "none"
  /\ run = NoCall

\* the button of addActivity
AddActivity ==
  /\ Idle
  /\ Len(activities) < MaxUiActs
  /\ activities' = addActivity(activities)
  /\ last' = "addActivity"
  /\ UNCHANGED <<result, run>>

\* the remove button of a row
RemoveActivity ==
  /\ Idle
  /\ \E k \in 1..Len(activities) :
       activities' = removeActivity(activities, activities[k].id)
  /\ last' = "removeActivity"
  /\ UNCHANGED <<result, run>>

\* lines 268 and 280 with a setResult(null) after the edit
UpdateActivityAndReset ==
  /\ Idle
  /\ \E k \in 1..Len(activities) :
       \/ \E value \in UiNames :
            activities' = updateActivity(activities, activities[k].id, "name", value)
       \/ \E value \in UiDurations :
            activities' = updateActivity(activities, activities[k].id, "duration", value)
  /\ result' = Null
  /\ last' = "updateActivity"
  /\ UNCHANGED run

\* lines 268 and 280: onChange of the name and the duration input of a row
UpdateActivity ==
  /\ Idle
  /\ \E k \in 1..Len(activities) :
       \/ \E value \in UiNames :
            activities' = updateActivity(activities, activities[k].id, "name", value)
       \/ \E value \in UiDurations :
            activities' = updateActivity(activities, activities[k].id, "duration", value)
  /\ last' = "updateActivity"
  /\ UNCHANGED <<result, run>>

\* lines 290-299: onChange of the check box that row k shows for row j
UpdatePredecessors ==
  /\ Idle
  /\ \E k, j \in 1..Len(activities) :
       /\ activities[j].id # activities[k].id
       /\ \E ticked \in {updatePredecessors(activities, activities[k].id, activities[j].id,
                                             ~Includes(activities[k].predecessors,
                                                       activities[j].id))} :
            /\ refCount(ticked) <= MaxUiEdges
            /\ activities' = ticked
  /\ last' = "updatePredecessors"
  /\ UNCHANGED <<result, run>>

\* lines 225-231 without the setResult(null) of line 230
ClearList ==
  /\ Idle
  /\ activities' = InitialActivities
  /\ last' = "clear"
  /\ UNCHANGED <<result, run>>

\* lines 225-231
Clear ==
  /\ Idle
  /\ activities' = InitialActivities
  /\ result' = Null
  /\ last' = "clear"
  /\ UNCHANGED run

Next ==
  \/ AddActivity
  \/ RemoveActivity
  \/ UpdateActivity
  \/ UpdatePredecessors
  \/ Idle /\ Calculate
  \/ Clear

Spec == Init /\ [][Next]_vars


\* the pruning notices the specification describes: one for each valid activity, in
\* list order, that lists an id no valid activity has
RECURSIVE noticesOf(_, _, _)
noticesOf(acts, k, known) ==
  IF k > Len(acts) THEN <<>>
  ELSE (IF /\ isValid(parsedOf(acts[k]))
           /\ Range(acts[k].predecessors) \ known # {}
        THEN <<PruneWarning(acts[k].id)>> ELSE <<>>)
       \o noticesOf(acts, k + 1, known)

(***************************************************************************)
(* C6.  On an acyclic input with at least two valid activities,            *)
(* result.warnings is exactly the pruning notices of the valid activities  *)
(* that listed an id no valid activity has, one each, in list order; an    *)
(* activity that lost only a reference to itself has none, and there are   *)
(* no other warnings.                                                      *)
(***************************************************************************)
C6_PruneNotices ==
  (Calculated /\ Acyclic(activities)) =>
    /\ isResult(result)
    /\ result.warnings = noticesOf(activities, 1, validIds(activities))


\* the result object without activities, critical path, duration and warnings
EmptyResult ==
  [activities |-> <<>>, criticalPath |-> <<>>, projectDuration |-> 0, warnings |-> <<>>]

showsValid(e, a) ==
  /\ isValid(parsedOf(a))
  /\ e.id = a.id /\ e.name = trim(a.name) /\ e.duration = parseFloat(a.duration)

(***************************************************************************)
(* C8.  Silent drop: every entry of result.activities shows an activity    *)
(* that passed validation, with a non-empty name and a finite duration     *)
(* above 0; result.criticalPath names only such entries; and every warning *)
(* is the cycle notice or the pruning notice of a valid activity that      *)
(* lists an id no valid activity has, so dropping an activity adds no      *)
(* warning by itself.                                                      *)
(***************************************************************************)
C8_SilentDrop ==
  (Calculated /\ isResult(result)) =>
    /\ \A k \in 1..Len(result.activities) :
         LET e == result.activities[k]
         IN /\ e.name # <<>> /\ isFinite(e.duration) /\ Gt(e.duration, 0)
            /\ \E j \in 1..Len(activities) : showsValid(e, activities[j])
    /\ \A i \in 1..Len(result.criticalPath) :
         \E k \in 1..Len(result.activities) :
            result.activities[k].id = result.criticalPath[i]
    /\ \A i \in 1..Len(result.warnings) :
         \/ result.warnings[i] = CycleWarning
         \/ \E j \in 1..Len(activities) :
              /\ isValid(parsedOf(activities[j]))
              /\ Range(activities[j].predecessors) \ validIds(activities) # {}
              /\ result.warnings[i] = PruneWarning(activities[j].id)

\* a schedule of two activities, computed for a list that also holds an
\* activity with a name and a duration that is not above 0, without warning
C8_Witness ==
  /\ Calculated /\ isResult(result)
  /\ Len(result.activities) = 2 /\ result.criticalPath # <<>> /\ result.warnings = <<>>
  /\ \E j \in 1..Len(activities) :
       /\ trim(activities[j].name) # <<>>
       /\ isFinite(parseFloat(activities[j].duration))
       /\ ~Gt(parseFloat(activities[j].duration), 0)


(***************************************************************************)
(* SpecRun: one call of calculate, loop iteration by loop iteration.  The  *)
(* handler runs to completion once started, so its steps are taken as long *)
(* as one is possible (weak fairness).  The locals that are not kept in    *)
(* run are functions of activities and order, recomputed where read.       *)
(***************************************************************************)
MaxRunActs == 3

MaxRunEdges == 2

\* the pushes onto criticalPath that the model follows
MaxWalk == 8

RunRows == {[name |-> <<>>, duration |-> <<>>],
            [name |-> <<"n">>, duration |-> <<"1">>],
            [name |-> <<"n">>, duration |-> <<"3", "2">>]}

\* the check boxes ticked in the lists on LongActivities: any of B for A, of A
\* and D for B, of A for E
LongBoxes(id) ==
  CASE id = "A" -> <<"B">>
    [] id = "B" -> <<"A", "D">>
    [] id = "E" -> <<"A">>
    [] OTHER    -> <<>>

HeldRun(acts) ==
  \/ \E ids \in IdLists(MaxRunActs) :
       LET ds == distinctIds(ids)
       IN \E preds \in predChoices(ds, 1, MaxRunEdges, FALSE) :
            \E rows \in [1..Len(ds) -> RunRows] :
              acts = dress(ids, ds, rows, preds)
  \/ LET ids == idsOf(LongActivities)
         ds  == distinctIds(ids)
     IN \E rows \in [1..Len(ds) -> RunRows \ {[name |-> <<>>, duration |-> <<>>]}] :
          \E preds \in [1..Len(ds) -> UNION {SubSeqs(LongBoxes(id)) : id \in Range(ds)}] :
            /\ \A k \in 1..Len(ds) : preds[k] \in SubSeqs(LongBoxes(ds[k]))
            /\ acts = dress(ids, ds, rows, preds)

InitRun ==
  /\ HeldRun(activities)
  /\ result \in {Null, CycleResult}
  /\ last = "none"
  /\ run = NoCall

\* lines 45-49 on the graph of lines 101-128: the maps of topoSort
inDegMap(g) == [v \in TopoKeys(g.nodes, g.edges) |-> inDegOf(g.edges, v)]

adjMap(g) == [u \in TopoKeys(g.nodes, g.edges) |-> adjOf(g.edges, u)]

\* lines 100-128 and 45-51: validation, pruning, the graph, the seeded queue
RunStart ==
  /\ run.pc = "idle"
  /\ \E g \in {graphOf(activities)} :
       /\ activities' = callerView(g.heap, Len(activities))
       /\ IF Len(g.valid) < 2
          THEN /\ result' = setResult(result, Null)
               /\ last' = "calculate"
               /\ run' = [pc |-> "done"]
          ELSE /\ run' = [pc |-> "kahn", q |-> seedQueue(g.nodes, inDegMap(g)),
                          order |-> <<>>, inDeg |-> inDegMap(g)]
               /\ last' = "calculating"
               /\ UNCHANGED result

\* lines 53-62: one iteration of while (q.length)
KahnStep ==
  /\ run.pc = "kahn" /\ run.q # <<>>
  /\ \E g \in {graphOf(activities)} :
       LET u == Head(run.q)
           r == relax(adjMap(g)[u], run.inDeg, Tail(run.q))
       IN run' = [run EXCEPT !.q = r.q, !.order = Append(@, u), !.inDeg = r.inDeg]
  /\ UNCHANGED <<activities, result, last>>

\* lines 63 and 130-197: the loop of topoSort has ended; the cycle result, or
\* the passes and the start of the walk
KahnExit ==
  /\ run.pc = "kahn" /\ run.q = <<>>
  /\ \E g \in {graphOf(activities)} :
       IF Len(run.order) # Len(g.nodes)
       THEN /\ result' = setResult(result, CycleResult)
            /\ last' = "calculate"
            /\ run' = [pc |-> "done"]
       ELSE LET startCrit == startCritOf(scheduleOf(g, run.order), run.order)
            IN IF startCrit = <<>>
               THEN /\ result' = setResult(result, resultOf(g, run.order, <<>>))
                    /\ last' = "calculate"
                    /\ run' = [pc |-> "done"]
               ELSE /\ run' = [pc |-> "walk", order |-> run.order,
                               cur |-> startCrit[1], criticalPath |-> <<>>]
                    /\ UNCHANGED <<result, last>>
  /\ UNCHANGED activities

\* lines 198-205: one iteration of while (cur); after the last one, lines 208-222
WalkStep ==
  /\ run.pc = "walk"
  /\ Len(run.criticalPath) < MaxWalk
  /\ \E g \in {graphOf(activities)} :
       LET byId == scheduleOf(g, run.order)
           path == Append(run.criticalPath, run.cur)
           next == nextOf(byId, byId[run.cur])
       IN IF next = <<>>
          THEN /\ result' = setResult(result, resultOf(g, run.order, path))
               /\ last' = "calculate"
               /\ run' = [pc |-> "done"]
          ELSE /\ run' = [run EXCEPT !.cur = next[1], !.criticalPath = path]
               /\ UNCHANGED <<result, last>>
  /\ UNCHANGED activities

NextRun ==
  \/ RunStart
  \/ KahnStep
  \/ KahnExit
  \/ WalkStep

SpecRun == InitRun /\ [][NextRun]_vars /\ WF_vars(NextRun)

\* the call of calculate has returned
Returned == run.pc = "done"

(***************************************************************************)
(* SpecApi: calculate applied to activity lists of the type                *)
(* ActivityInput[] whose predecessors name any listed id, the activity's   *)
(* own among them, or the unlisted id Ghost.  The check boxes produce only *)
(* part of these lists (never an own or an unlisted id).                   *)
(***************************************************************************)
MaxApiActs == 3

MaxApiEdges == 2

ApiRows == Rows \cup {[name |-> <<>>, duration |-> <<>>]}

HeldApi(acts) ==
  \E ids \in IdLists(MaxApiActs) :
    LET ds == distinctIds(ids)
    IN \E preds \in predChoices(ds, 1, MaxApiEdges, TRUE) :
         \E rows \in [1..Len(ds) -> ApiRows] :
           acts = dress(ids, ds, rows, preds)

InitApi ==
  /\ HeldApi(activities)
  /\ result = Null
  /\ last = "none"
  /\ run = NoCall

SpecApi == InitApi /\ [][NextCalc]_vars

(***************************************************************************)
(* C9.  calculate terminates for every activity list: the Kahn loop of     *)
(* topoSort and the critical-path walk stop after finitely many steps.     *)
(* The Kahn loop dequeues one id per iteration and has enqueued at most    *)
(* one per node and one per edge; the walk picks its next node from the    *)
(* current one alone, so it stops exactly if it never comes back to a node *)
(* it has pushed.                                                          *)
(***************************************************************************)
C9_Terminates ==
  /\ run.pc = "kahn" =>
       Len(run.order) + Len(run.q)
         <= Len(graphOf(activities).nodes) + Len(graphOf(activities).edges)
  /\ run.pc = "walk" => ~Includes(run.criticalPath, run.cur)

(***************************************************************************)
(* C10.  calculate never changes the activity list it reads: every step of *)
(* calculate leaves activities (ids, names, duration strings and every     *)
(* predecessors array, own and pruned references included) as it was.      *)
(***************************************************************************)
C10_ListUntouched == [][activities' = activities]_vars

\* after calculate, which dropped an own and an unlisted reference of a valid
\* activity and gave the pruning notice, the activity still lists both
C10_Witness ==
  /\ Calculated /\ isResult(result)
  /\ \E k \in 1..Len(activities) :
       /\ isValid(parsedOf(activities[k]))
       /\ Includes(activities[k].predecessors, activities[k].id)
       /\ Includes(activities[k].predecessors, Ghost)
       /\ result.warnings = <<PruneWarning(activities[k].id)>>

(***************************************************************************)
(* C11.  The ids of the activity list are pairwise distinct in every list  *)
(* the component holds: no two entries of activities have the same id,     *)
(* whatever handlers have run since the initial list [A, B].               *)
(***************************************************************************)
C11_DistinctIds ==
  \A i, j \in 1..Len(activities) :
    i # j => activities[i].id # activities[j].id

\* the number of entries of the sequence xs whose id is id
countId(xs, id) == Cardinality({k \in 1..Len(xs) : xs[k].id = id})

(***************************************************************************)
(* C12.  On an acyclic input with at least two valid activities,           *)
(* result.activities is a topological order of the validated activities:   *)
(* it has one entry for each validated activity (as many entries of an id  *)
(* as validated activities of that id), and every entry comes after an     *)
(* entry of each predecessor its activity retains.                         *)
(***************************************************************************)
C12_TopologicalOrder ==
  (Calculated /\ Acyclic(activities)) =>
    /\ isResult(result)
    /\ \A g \in {graphOf(activities)} :
         /\ Len(result.activities) = Len(g.valid)
         /\ \A j \in 1..Len(g.valid) :
              countId(result.activities, g.valid[j].id) = countId(g.valid, g.valid[j].id)
         /\ \A k \in 1..Len(result.activities) :
              \A j \in 1..Len(g.valid) :
                g.valid[j].id = result.activities[k].id =>
                  \A p \in Range(g.valid[j].predecessors) :
                    \E i \in 1..(k - 1) : result.activities[i].id = p

\* the earliest finish, total float and criticality of the four activities
DiamondExpected ==
  [A |-> [ef |-> 4,  totalFloat |-> 0, isCritical |-> TRUE],
   B |-> [ef |-> 6,  totalFloat |-> 4, isCritical |-> FALSE],
   C |-> [ef |-> 10, totalFloat |-> 0, isCritical |-> TRUE],
   D |-> [ef |-> 11, totalFloat |-> 0, isCritical |-> TRUE]]

(***************************************************************************)
(* C13.  Diamond scenario: for A (duration 4), B (2, after A), C (6, after *)
(* A) and D (1, after B and C), calculate gives the earliest finishes 4,   *)
(* 6, 10 and 11, projectDuration 11, A, C and D critical with total float  *)
(* 0, B not critical with total float 4, and criticalPath [A, C, D].       *)
(***************************************************************************)
C13_Diamond ==
  (Calculated /\ activities = Diamond) =>
    /\ isResult(result)
    /\ result.projectDuration = 11
    /\ result.criticalPath = <<"A", "C", "D">>
    /\ {result.activities[k].id : k \in 1..Len(result.activities)} = DOMAIN DiamondExpected
    /\ \A k \in 1..Len(result.activities) :
         LET e == result.activities[k]
         IN /\ Add(e.est, e.duration) = DiamondExpected[e.id].ef
            /\ e.totalFloat = DiamondExpected[e.id].totalFloat
            /\ e.isCritical = DiamondExpected[e.id].isCritical
    /\ \A byId \in {nodesOf(activities)} :
         \A id \in DOMAIN byId : byId[id].ef = DiamondExpected[id].ef

\* calculate has run on the diamond and stored a schedule of four activities
C13_Witness ==
  /\ Calculated /\ activities = Diamond
  /\ isResult(result) /\ Len(result.activities) = 4

\* the entries of result.activities whose id is id
entriesOf(r, id) == {r.activities[k] : k \in {j \in 1..Len(r.activities) : r.activities[j].id = id}}

\* the durations of the activities of path added up from left to right
RECURSIVE pathLength(_, _, _)
pathLength(r, path, sum) ==
  IF path = <<>> THEN sum
  ELSE pathLength(r, Tail(path),
                  Add(sum, (CHOOSE e \in entriesOf(r, Head(path)) : TRUE).duration))

(***************************************************************************)
(* C14.  On an acyclic input with at least two valid activities,           *)
(* result.criticalPath is a chain of the dependency graph without a        *)
(* repeated id, each element a declared successor of the one before it and *)
(* critical with total float 0; it starts at an activity with earliest     *)
(* start 0, ends at one without successors, and its durations add up to    *)
(* projectDuration.                                                        *)
(***************************************************************************)
C14_CriticalChain ==
  (Calculated /\ Acyclic(activities)) =>
    /\ isResult(result)
    /\ \A cp \in {result.criticalPath} :
         /\ cp # <<>>
         /\ \A i, j \in 1..Len(cp) : i # j => cp[i] # cp[j]
         /\ \A i \in 1..Len(cp) :
              /\ entriesOf(result, cp[i]) # {}
              /\ \A e \in entriesOf(result, cp[i]) : e.isCritical /\ e.totalFloat = 0
         /\ \A e \in entriesOf(result, cp[1]) : e.est = 0
         /\ cp[Len(cp)] \in sinksOf(activities)
         /\ \A i \in 1..(Len(cp) - 1) :
              \E k \in 1..Len(graphOf(activities).edges) :
                 graphOf(activities).edges[k] = <<cp[i], cp[i + 1]>>
         /\ pathLength(result, cp, 0) = result.projectDuration

(***************************************************************************)
(* C15.  A cycle is reported only when one exists: whenever calculate has  *)
(* stored the cycle result for the list the component holds, the pruned    *)
(* predecessor graph of the validated activities has a directed cycle.     *)
(***************************************************************************)
C15_CycleOnlyWhenPresent ==
  (Calculated /\ result = CycleResult) =>
    hasDirectedCycle(graphOf(activities).edges)

\* the references to an id of ids among the predecessors the activities of
\* valid retain, counted for the activities whose id is id
RECURSIVE inDegreeOf(_, _)
inDegreeOf(valid, id) ==
  IF valid = <<>> THEN 0
  ELSE (IF Head(valid).id = id THEN Len(Head(valid).predecessors) ELSE 0)
       + inDegreeOf(Tail(valid), id)

\* u has been dequeued: the activities valid[j..] in list order, each losing
\* one in-degree per reference to u and joining the back of the queue when
\* its in-degree reaches zero
RECURSIVE releaseFrom(_, _, _, _, _)
releaseFrom(valid, j, u, inDeg, q) ==
  IF j > Len(valid) THEN [inDeg |-> inDeg, q |-> q]
  ELSE IF Includes(valid[j].predecessors, u)
       THEN releaseFrom(valid, j + 1, u,
                        [inDeg EXCEPT ![valid[j].id] = @ - 1],
                        IF inDeg[valid[j].id] = 1 THEN Append(q, valid[j].id) ELSE q)
       ELSE releaseFrom(valid, j + 1, u, inDeg, q)

\* the order in which Kahn's algorithm with a first-in first-out queue
\* dequeues
RECURSIVE dequeueOrder(_, _, _, _)
dequeueOrder(valid, q, inDeg, order) ==
  IF q = <<>> THEN order
  ELSE LET r == releaseFrom(valid, 1, Head(q), inDeg, Tail(q))
       IN dequeueOrder(valid, r.q, r.inDeg, Append(order, Head(q)))

\* Kahn's order for the validated activities: the queue starts with the ids
\* of in-degree zero in list order
kahnFifo(valid) ==
  dequeueOrder(valid,
               SelectSeq([k \in 1..Len(valid) |-> valid[k].id],
                         LAMBDA id : inDegreeOf(valid, id) = 0),
               [id \in {valid[k].id : k \in 1..Len(valid)} |-> inDegreeOf(valid, id)],
               <<>>)

(***************************************************************************)
(* C16.  topoSort returns exactly the order of Kahn's algorithm with a     *)
(* first-in first-out queue: seeded with the nodes of in-degree zero in    *)
(* list order, dequeued at the front, a dequeued node's successors joining *)
(* the back as they reach in-degree zero in the order they have in the     *)
(* activity list; a schedule calculate stores lists its activities in that *)
(* order.                                                                  *)
(***************************************************************************)
C16_KahnFifo ==
  (Calculated /\ validCount(activities) >= 2) =>
    \A g \in {graphOf(activities)} :
      /\ topoSort(g.nodes, g.edges).order = kahnFifo(g.valid)
      /\ (isResult(result) /\ result # CycleResult) =>
           [k \in 1..Len(result.activities) |-> result.activities[k].id] = kahnFifo(g.valid)

\* a stored schedule whose order is not the list order, with an activity
\* that waits for two predecessors
C16_Witness ==
  /\ Calculated /\ isResult(result) /\ Len(result.activities) >= 3
  /\ [k \in 1..Len(result.activities) |-> result.activities[k].id]
       # graphOf(activities).nodes
  /\ \E j \in 1..Len(graphOf(activities).valid) :
       Len(graphOf(activities).valid[j].predecessors) = 2

\* the entry of result.activities whose id is id
entryOf(r, id) == CHOOSE e \in entriesOf(r, id) : TRUE

(***************************************************************************)
(* C17.  Forward pass: when calculate has scheduled an acyclic input,      *)
(* every node's es is the largest ef of the predecessors it retains, 0     *)
(* when it retains none, and its ef is es + duration, the ef of every      *)
(* predecessor being the final one; result.activities shows the same       *)
(* earliest starts.                                                        *)
(***************************************************************************)
C17_ForwardPass ==
  (Calculated /\ Acyclic(activities) /\ Scheduled(activities)) =>
    \A byId \in {nodesOf(activities)} :
      \A id \in DOMAIN byId :
        /\ byId[id].es =
             Max0([k \in 1..Len(byId[id].preds) |-> byId[byId[id].preds[k]].ef])
        /\ byId[id].ef = Add(byId[id].es, byId[id].duration)
        /\ isResult(result) =>
             /\ entriesOf(result, id) # {}
             /\ entryOf(result, id).est =
                  Max0([k \in 1..Len(byId[id].preds) |->
                          Add(entryOf(result, byId[id].preds[k]).est,
                              entryOf(result, byId[id].preds[k]).duration)])

(***************************************************************************)
(* C18.  Backward pass: when calculate has scheduled an acyclic input,     *)
(* every node's lf is projectDuration when it has no successors and else   *)
(* the least ls of its successors, the ls of every successor being the     *)
(* final one and not the Infinity it starts with; its ls is lf - duration; *)
(* result.activities shows the same latest finishes.                       *)
(***************************************************************************)
C18_BackwardPass ==
  (Calculated /\ Acyclic(activities) /\ Scheduled(activities)) =>
    \A byId \in {nodesOf(activities)} :
      \A id \in DOMAIN byId :
        /\ byId[id].lf =
             IF byId[id].succs = <<>>
             THEN Max0([k \in 1..Len(result.activities) |->
                          byId[result.activities[k].id].ef])
             ELSE MinOf([k \in 1..Len(byId[id].succs) |-> byId[byId[id].succs[k]].ls])
        /\ byId[id].ls = Sub(byId[id].lf, byId[id].duration)
        /\ isResult(result) =>
             /\ entriesOf(result, id) # {}
             /\ entryOf(result, id).lft =
                  IF byId[id].succs = <<>> THEN result.projectDuration
                  ELSE MinOf([k \in 1..Len(byId[id].succs) |->
                                Sub(entryOf(result, byId[id].succs[k]).lft,
                                    entryOf(result, byId[id].succs[k]).duration)])

(***************************************************************************)
(* C19.  Floats: for every node of a schedule calculate has stored,        *)
(* totalFloat is lf - ef, and freeFloat is max(0, min es of the successors *)
(* - ef) when the node has successors and max(0, projectDuration - ef)     *)
(* when it has none, with the values the passes ended with;                *)
(* result.activities shows the same floats.                                *)
(***************************************************************************)
C19_Floats ==
  (Calculated /\ Scheduled(activities) /\ isResult(result)) =>
    \A byId \in {nodesOf(activities)} :
      \A id \in DOMAIN byId :
        /\ byId[id].totalFloat = Sub(byId[id].lf, byId[id].ef)
        /\ byId[id].freeFloat =
             IF byId[id].succs # <<>>
             THEN Max0(<<Sub(MinOf([k \in 1..Len(byId[id].succs) |->
                                      byId[byId[id].succs[k]].es]),
                             byId[id].ef)>>)
             ELSE Max0(<<Sub(result.projectDuration, byId[id].ef)>>)
        /\ entriesOf(result, id) # {}
        /\ \A e \in entriesOf(result, id) :
             /\ e.totalFloat = Sub(e.lft, Add(e.est, e.duration))
             /\ e.freeFloat =
                  IF byId[id].succs # <<>>
                  THEN Max0(<<Sub(MinOf([k \in 1..Len(byId[id].succs) |->
                                           entryOf(result, byId[id].succs[k]).est]),
                                  Add(e.est, e.duration))>>)
                  ELSE Max0(<<Sub(result.projectDuration, Add(e.est, e.duration))>>)

\* a stored schedule of an acyclic input in which an activity with a
\* successor has free float above 0 and below its total float, and an
\* activity without successors has free float above 0
C19_Witness ==
  /\ Calculated /\ Acyclic(activities) /\ Scheduled(activities) /\ isResult(result)
  /\ \E k \in 1..Len(result.activities) :
       /\ nodesOf(activities)[result.activities[k].id].succs # <<>>
       /\ 0 < result.activities[k].freeFloat
       /\ result.activities[k].freeFloat < result.activities[k].totalFloat
  /\ \E k \in 1..Len(result.activities) :
       /\ nodesOf(activities)[result.activities[k].id].succs = <<>>
       /\ 0 < result.activities[k].freeFloat

(***************************************************************************)
(* C20, as stated.  In every schedule calculate has stored for an acyclic  *)
(* input, an entry is critical exactly when its totalFloat is zero, and an *)
(* entry with positive totalFloat is not critical.                         *)
(***************************************************************************)
C20_CriticalIffZero ==
  (Calculated /\ Acyclic(activities) /\ Scheduled(activities) /\ isResult(result)) =>
    \A k \in 1..Len(result.activities) :
      /\ result.activities[k].isCritical <=> result.activities[k].totalFloat = 0
      /\ Lt(0, result.activities[k].totalFloat) => ~result.activities[k].isCritical

(***************************************************************************)
(* C20, amended.  In every schedule calculate has stored, an entry is      *)
(* critical exactly when its totalFloat is a number strictly between       *)
(* -Epsilon and Epsilon (line 189: Math.abs(n.totalFloat) < 1e-9); an      *)
(* entry whose totalFloat is NaN, or at least Epsilon away from zero, is   *)
(* not critical.  The nodes calculate wrote carry the same flag.           *)
(***************************************************************************)
C20_CriticalIffNearZero ==
  (Calculated /\ Scheduled(activities) /\ isResult(result)) =>
    /\ \A k \in 1..Len(result.activities) :
         result.activities[k].isCritical <=>
           /\ result.activities[k].totalFloat # NaN
           /\ -Epsilon < result.activities[k].totalFloat
           /\ result.activities[k].totalFloat < Epsilon
    /\ \A byId \in {nodesOf(activities)} :
         \A id \in DOMAIN byId :
           byId[id].isCritical <=>
             /\ byId[id].totalFloat # NaN
             /\ -Epsilon < byId[id].totalFloat
             /\ byId[id].totalFloat < Epsilon

\* a stored schedule of an acyclic input with a critical entry of totalFloat
\* zero, a critical entry of positive totalFloat below Epsilon, and an entry
\* of totalFloat at least Epsilon that is not critical
C20_Witness ==
  /\ Calculated /\ Acyclic(activities) /\ Scheduled(activities) /\ isResult(result)
  /\ \E k \in 1..Len(result.activities) :
       result.activities[k].isCritical /\ result.activities[k].totalFloat = 0
  /\ \E k \in 1..Len(result.activities) :
       result.activities[k].isCritical /\ Lt(0, result.activities[k].totalFloat)
  /\ \E k \in 1..Len(result.activities) :
       ~result.activities[k].isCritical /\ Le(Epsilon, result.activities[k].totalFloat)


\* the entries of the result r a critical path may start with: critical, est 0
startCandidates(r) ==
  {k \in 1..Len(r.activities) : r.activities[k].isCritical /\ r.activities[k].est = 0}

\* the place of the first activity of id id in the list acts
firstIndex(acts, id) ==
  CHOOSE k \in 1..Len(acts) :
    acts[k].id = id /\ \A j \in 1..(k - 1) : acts[j].id # id

(***************************************************************************)
(* C21.  Start of the critical path: in every schedule calculate has       *)
(* stored, criticalPath is empty exactly when no entry is critical with    *)
(* est 0; otherwise its first element is the id of such an entry, no such  *)
(* entry has a smaller earliest finish (est + duration), and among those   *)
(* of the same earliest finish none comes earlier in the activity list.    *)
(***************************************************************************)
C21_PathStart ==
  (Calculated /\ Scheduled(activities) /\ isResult(result)) =>
    \A cands \in {startCandidates(result)} :
      /\ result.criticalPath = <<>> <=> cands = {}
      /\ result.criticalPath # <<>> =>
           \E f \in cands :
             /\ result.activities[f].id = result.criticalPath[1]
             /\ \A k \in cands :
                  /\ Le(Add(result.activities[f].est, result.activities[f].duration),
                        Add(result.activities[k].est, result.activities[k].duration))
                  /\ Add(result.activities[f].est, result.activities[f].duration) =
                       Add(result.activities[k].est, result.activities[k].duration)
                     => firstIndex(activities, result.activities[f].id) <=
                          firstIndex(activities, result.activities[k].id)

\* a stored schedule with three start candidates: the path starts with the
\* one of smallest earliest finish, which is not the first of the list, and
\* two candidates tie on a larger earliest finish
C21_Witness ==
  /\ Calculated /\ Scheduled(activities) /\ isResult(result)
  /\ result.criticalPath # <<>>
  /\ result.criticalPath[1] # activities[1].id
  /\ \E k \in startCandidates(result) : \E j \in startCandidates(result) :
       /\ k # j
       /\ result.activities[k].id # result.activities[j].id
       /\ result.activities[k].duration = result.activities[j].duration
       /\ result.activities[k].id # result.criticalPath[1]
       /\ result.activities[j].id # result.criticalPath[1]


\* the earliest finish the result r shows for the activity id
finishOf(r, id) == Add(entryOf(r, id).est, entryOf(r, id).duration)

\* the edges of the list edges from id to a critical activity whose est
\* satisfies meets(est, earliest finish of id), as places in edges
stepCandidates(edges, r, id, meets(_, _)) ==
  {k \in 1..Len(edges) :
     /\ edges[k][1] = id
     /\ entryOf(r, edges[k][2]).isCritical
     /\ meets(entryOf(r, edges[k][2]).est, finishOf(r, id))}

\* the element after place i of the critical path of r is the choice among
\* the candidates cands: of least earliest finish and, among those, earliest
\* in the list acts; the path ends at place i exactly when there is none
stepChoice(acts, edges, r, i, cands) ==
  IF i = Len(r.criticalPath) THEN cands = {}
  ELSE \E k \in cands :
         /\ edges[k][2] = r.criticalPath[i + 1]
         /\ \A j \in cands :
              /\ Le(finishOf(r, edges[k][2]), finishOf(r, edges[j][2]))
              /\ finishOf(r, edges[k][2]) = finishOf(r, edges[j][2])
                 => firstIndex(acts, edges[k][2]) <= firstIndex(acts, edges[j][2])

\* est lies less than Epsilon from ef
meetsNear(es, ef) ==
  Sub(es, ef) # NaN /\ -Epsilon < Sub(es, ef) /\ Sub(es, ef) < Epsilon

(***************************************************************************)
(* C22, as stated.  In every schedule calculate has stored, each next      *)
(* element of criticalPath is, among the successors of the current one     *)
(* that are critical and whose est equals the current one's earliest       *)
(* finish, the one of least earliest finish, ties going to the one         *)
(* earliest in the activity list; the path ends exactly at an element      *)
(* without such a successor.                                               *)
(***************************************************************************)
C22_StepExact ==
  (Calculated /\ Scheduled(activities) /\ isResult(result)) =>
    \A edges \in {graphOf(activities).edges} :
      \A i \in 1..Len(result.criticalPath) :
        stepChoice(activities, edges, result, i,
                   stepCandidates(edges, result, result.criticalPath[i],
                                  LAMBDA es, ef : es = ef))

(***************************************************************************)
(* C22, amended.  The same with the successors that are critical and whose *)
(* est lies less than Epsilon from the current one's earliest finish       *)
(* (line 202: Math.abs(es - node.ef) < 1e-9).                              *)
(***************************************************************************)
C22_StepNear ==
  (Calculated /\ Scheduled(activities) /\ isResult(result)) =>
    \A edges \in {graphOf(activities).edges} :
      \A i \in 1..Len(result.criticalPath) :
        stepChoice(activities, edges, result, i,
                   stepCandidates(edges, result, result.criticalPath[i], meetsNear))

\* a stored schedule whose critical path takes a step at which two successors
\* of different earliest finish qualify and the one declared later is chosen
C22_Witness ==
  /\ Calculated /\ Scheduled(activities) /\ isResult(result)
  /\ \E edges \in {graphOf(activities).edges} :
       \E i \in 1..(Len(result.criticalPath) - 1) :
         \E k, j \in stepCandidates(edges, result, result.criticalPath[i], meetsNear) :
           /\ j < k
           /\ edges[k][2] = result.criticalPath[i + 1]
           /\ Lt(finishOf(result, edges[k][2]), finishOf(result, edges[j][2]))


(***************************************************************************)
(* C23.  In every schedule calculate has stored for an acyclic input,      *)
(* every entry has 0 <= freeFloat <= totalFloat, every entry of an         *)
(* activity without successors has freeFloat = totalFloat, and every       *)
(* critical entry has freeFloat = 0.                                       *)
(***************************************************************************)
C23_FreeWithinTotal ==
  (Calculated /\ Acyclic(activities) /\ Scheduled(activities) /\ isResult(result)) =>
    \A sinks \in {sinksOf(activities)} :
      \A k \in 1..Len(result.activities) :
        /\ Le(0, result.activities[k].freeFloat)
        /\ Le(result.activities[k].freeFloat, result.activities[k].totalFloat)
        /\ result.activities[k].id \in sinks =>
             result.activities[k].freeFloat = result.activities[k].totalFloat
        /\ result.activities[k].isCritical => result.activities[k].freeFloat = 0


(***************************************************************************)
(* C24.  The activity list never holds fewer than two entries: every step  *)
(* of the component leaves at least two, and removeActivity leaves a list  *)
(* of two or fewer entries as it is and otherwise removes exactly one      *)
(* entry.                                                                  *)
(***************************************************************************)
C24_AtLeastTwo ==
  [][/\ Len(activities') >= 2
     /\ last' = "removeActivity" =>
          IF Len(activities) <= 2 THEN activities' = activities
          ELSE Len(activities') = Len(activities) - 1]_vars


\* every predecessor reference of the list acts names an activity of the
\* list other than its holder, and no holder names an id twice
integrity(acts) ==
  \A k \in 1..Len(acts) :
    /\ \A i \in 1..Len(acts[k].predecessors) :
         /\ \E j \in 1..Len(acts) : acts[j].id = acts[k].predecessors[i]
         /\ acts[k].predecessors[i] # acts[k].id
    /\ \A i, j \in 1..Len(acts[k].predecessors) :
         i # j => acts[k].predecessors[i] # acts[k].predecessors[j]

(***************************************************************************)
(* C25.  Referential integrity: every step of the component leaves a list  *)
(* in which each predecessor reference names a listed activity other than  *)
(* its holder, at most once per holder; and after removeActivity no        *)
(* remaining activity refers to an id the step took from the list.         *)
(***************************************************************************)
C25_ReferentialIntegrity ==
  [][/\ integrity(activities')
     /\ last' = "removeActivity" =>
          \A k \in 1..Len(activities) :
            (\A j \in 1..Len(activities') : activities'[j].id # activities[k].id) =>
              \A j \in 1..Len(activities') :
                ~Includes(activities'[j].predecessors, activities[k].id)]_vars

\* removeActivity has left the list [A, C] in which C still waits for A
C25_Witness ==
  /\ last = "removeActivity"
  /\ idsOf(activities) = <<"A", "C">>
  /\ activities[2].predecessors = <<"A">>


(***************************************************************************)
(* C26.  Whenever calculate has stored a schedule with activities for an   *)
(* acyclic list of distinct ids, result.criticalPath is not empty: some    *)
(* entry is critical with est 0.                                           *)
(***************************************************************************)
C26_PathFound ==
  (/\ Calculated /\ Acyclic(activities) /\ C11_DistinctIds
   /\ isResult(result) /\ result.activities # <<>>) =>
    /\ result.criticalPath # <<>>
    /\ startCandidates(result) # {}


(***************************************************************************)
(* C27.  Only calculate and clear write result: a step of addActivity,     *)
(* removeActivity, updateActivity or updatePredecessors leaves result as   *)
(* it is, a step of calculate stores what calculate computes from the list *)
(* of that moment, and a step of clear stores null; so between two such    *)
(* steps result is what the last of them stored.                           *)
(***************************************************************************)
C27_ResultFrame ==
  [][/\ result' # result => last' \in {"calculate", "clear"}
     /\ last' \in {"addActivity", "removeActivity", "updateActivity",
                   "updatePredecessors"} => result' = result
     /\ last' = "calculate" => result' = calculate(activities).result
     /\ last' = "clear" => result' = Null]_vars

\* after an edit the component shows a schedule that calculate would not
\* compute from the list it holds now
C27_Witness ==
  /\ last \in {"addActivity", "removeActivity", "updateActivity", "updatePredecessors"}
  /\ isResult(result)
  /\ result.activities # <<>>
  /\ result # calculate(activities).result


(***************************************************************************)
(* C28.  Both schedules respect every dependency: in the nodes calculate   *)
(* has written for an acyclic input, every retained edge p -> s has        *)
(* ef(p) <= es(s) and lf(p) <= ls(s), and every node has es <= ls.         *)
(***************************************************************************)
C28_DependenciesRespected ==
  (Calculated /\ Acyclic(activities) /\ Scheduled(activities) /\ isResult(result)) =>
    \A byId \in {nodesOf(activities)} :
      /\ \A edges \in {graphOf(activities).edges} :
           \A k \in 1..Len(edges) :
             /\ Le(byId[edges[k][1]].ef, byId[edges[k][2]].es)
             /\ Le(byId[edges[k][1]].lf, byId[edges[k][2]].ls)
      /\ \A id \in DOMAIN byId : Le(byId[id].es, byId[id].ls)


\* the largest sum of durations along a directed path of the acyclic graph
\* edges that ends at id, the durations taken from byId and added exactly
RECURSIVE longestPathTo(_, _, _)
longestPathTo(edges, byId, id) ==
  byId[id].duration +
    MaxOfSet({0} \cup {longestPathTo(edges, byId, edges[k][1]) :
                         k \in {j \in 1..Len(edges) : edges[j][2] = id}})

(***************************************************************************)
(* C29.  For every acyclic input with at least two valid activities,       *)
(* calculate stores a schedule whose projectDuration is the largest sum of *)
(* durations along a directed path of the pruned graph, and in which the   *)
(* est of every activity is the largest sum of durations along a directed  *)
(* path ending at one of its predecessors, 0 if it has none.               *)
(***************************************************************************)
C29_LongestPath ==
  (Calculated /\ Acyclic(activities)) =>
    /\ isResult(result)
    /\ \A edges \in {graphOf(activities).edges} : \A byId \in {indexOf(activities)} :
         /\ result.projectDuration =
              MaxOfSet({longestPathTo(edges, byId, id) : id \in DOMAIN byId})
         /\ \A id \in DOMAIN byId :
              /\ entriesOf(result, id) # {}
              /\ \A e \in entriesOf(result, id) :
                   e.est = MaxOfSet({0} \cup
                             {longestPathTo(edges, byId, edges[k][1]) :
                                k \in {j \in 1..Len(edges) : edges[j][2] = id}})


(***************************************************************************)
(* C30.  clear resets the component: whatever it held before, after clear  *)
(* activities is the list of A and B with empty name, empty duration and   *)
(* no predecessors, and result is null.                                    *)
(***************************************************************************)
C30_ClearResets ==
  last = "clear" =>
    /\ activities =
         << [id |-> "A", name |-> <<>>, duration |-> <<>>, predecessors |-> <<>>],
            [id |-> "B", name |-> <<>>, duration |-> <<>>, predecessors |-> <<>>] >>
    /\ result = Null
    /\ <<activities, result>> = <<InitialActivities, Null>>

\* clear has run and left the list of the untouched A and B and no result
C30_Witness ==
  /\ last = "clear"
  /\ idsOf(activities) = <<"A", "B">>
  /\ \A k \in 1..2 : activities[k].name = <<>> /\ activities[k].duration = <<>>
  /\ result = Null

====
